---- MODULE Spec2Model ----
(***************************************************************************)
(* Taskly backend: users, session tokens, password reset and tasks.        *)
(*                                                                         *)
(* The store (MongoDB through Mongoose) is the variables users and tasks.  *)
(* Every HTTP handler is one action: the requests of one Node.js process   *)
(* that do not overlap.  req and res hold the request handled in the last  *)
(* step and the response to it.  Time is counted in hours.                 *)
(*                                                                         *)
(* consumed and superseded are history variables.  consumed is, per user,  *)
(* the reset token that user's last successful reset-password used, until  *)
(* forgot-password issues a new one.  superseded is, per user, the stored  *)
(* reset token that the last forgot-password replaced by a different one.  *)
(* issued is the session token the last successful login signed: the copy  *)
(* of it a client can keep after logout has cleared its cookie.            *)
(*                                                                         *)
(* inflight holds the requests that overlap others: a handler of such a    *)
(* request is one action per store operation it awaits, and keeps between  *)
(* them the document it read.                                              *)
(*                                                                         *)
(* The login rate limiter counts in its own clock, in units of five        *)
(* minutes within one hour: hits is its store, and admitted is a history   *)
(* variable, per client address and instant, the number of login requests  *)
(* the limiter let through to the handler.                                 *)
(***************************************************************************)
EXTENDS Integers, Sequences, FiniteSets, TLC

VARIABLES users, tasks, nextTaskId, now, cookie, consumed, superseded, req, res,
          clock, hits, admitted, issued, inflight

vars == <<users, tasks, nextTaskId, now, cookie, consumed, superseded, req, res,
          clock, hits, admitted, issued, inflight>>

limiterVars == <<clock, hits, admitted>>

(***************************************************************************)
(* Bounds of the model.                                                    *)
(***************************************************************************)
MaxTime == 2

MaxTasks == 1

\* the last instant of the limiter's clock
MaxClock == 2

(***************************************************************************)
(* Program constants, in hours and characters.                             *)
(***************************************************************************)
\* login: jwt.sign(..., { expiresIn: '2h' })
SessionTtl == 2

\* forgotPassword: jwt.sign(..., { expiresIn: '1h' }), Date.now() + 3600000
ResetTtl == 1

\* passwordRegex: {8,}
MinPasswordLength == 8

\* loginLimiter: windowMs: 10 * 60 * 1000, in units of five minutes
LoginWindow == 2

\* loginLimiter: max: 5
LoginMax == 5

(***************************************************************************)
(* Values.                                                                 *)
(***************************************************************************)
Emails == {"a@b.com", "c@d.com"}

Absent == "absent"

\* client addresses, the keys of the limiter
Clients == {"10.0.0.1", "10.0.0.2"}

\* null of resetPasswordExpires
NullDate == -1

JWT_SECRET == "JWT_SECRET"

\* A JWT: the payload { userId, iat, exp } and the key it was signed with.
\* NoToken stands for a missing cookie and for a null resetPasswordToken.
NoToken == [userId |-> 0, iat |-> 0, exp |-> 0, sig |-> "none"]

\* jwt.sign({ userId }, process.env.JWT_SECRET, { expiresIn: ttl })
jwtSign(userId, ttl) ==
    [userId |-> userId, iat |-> now, exp |-> now + ttl, sig |-> JWT_SECRET]

\* A verification that does not look at exp.
jwtVerifyIgnoresExpiry(token, t) == token.sig = JWT_SECRET

\* A verification that still accepts a token at the instant of its exp.
jwtVerifyAtExpiry(token, t) == token.sig = JWT_SECRET /\ t <= token.exp

\* jwt.verify(token, process.env.JWT_SECRET): the signature, then exp
jwtVerify(token, t) == token.sig = JWT_SECRET /\ t < token.exp

\* The payload of a token, signed with another key than the process secret.
Forged(token) == [token EXCEPT !.sig = "attacker"]

(***************************************************************************)
(* Passwords: sequences of characters.                                     *)
(***************************************************************************)
UpperCase == {"A","B","C","D","E","F","G","H","I","J","K","L","M",
              "N","O","P","Q","R","S","T","U","V","W","X","Y","Z"}

LowerCase == {"a","b","c","d","e","f","g","h","i","j","k","l","m",
              "n","o","p","q","r","s","t","u","v","w","x","y","z"}

Digits == {"0","1","2","3","4","5","6","7","8","9"}

Symbols == {"!","@","#","$","%","^","&","*","(",")","_","+","-","=","[","]",
            "{","}",";","'",":","\"","\\","|",",",".","<",">","/","?"}

\* "Abcdef1!"
PwGood == <<"A","b","c","d","e","f","1","!">>

\* "Zyxwvu9?"
PwOther == <<"Z","y","x","w","v","u","9","?">>

\* "alllower1!": no uppercase letter
PwLower == <<"a","l","l","l","o","w","e","r","1","!">>

\* "Abcde1!": seven characters
PwShort == <<"A","b","c","d","e","1","!">>

Passwords == {PwGood, PwOther, PwLower, PwShort}

\* The (password, confirmPassword) pairs of the requests.
PasswordPairs ==
    {<<p, p>> : p \in Passwords} \cup {<<PwGood, PwOther>>, <<PwLower, PwGood>>}

\* The (password, confirmPassword) pairs of the reset-password requests.
ResetPasswordPairs == {<<PwOther, PwOther>>, <<PwGood, PwOther>>, <<PwLower, PwLower>>}

\* passwordRegex.test(password)
passwordRegex(p) ==
    /\ \E i \in 1..Len(p) : p[i] \in UpperCase
    /\ \E i \in 1..Len(p) : p[i] \in Digits
    /\ \E i \in 1..Len(p) : p[i] \in Symbols
    /\ \A i \in 1..Len(p) : p[i] \in UpperCase \cup LowerCase \cup Digits \cup Symbols
    /\ Len(p) >= MinPasswordLength

\* passwordValidation(req): the message, or "null"
passwordValidation(password, confirmPassword) ==
    IF password # confirmPassword
    THEN "Password and confirm password don't match"
    ELSE IF ~passwordRegex(password)
    THEN "Password invalid"
    ELSE "null"

\* A hash that returns the password as it was given.
bcryptHashIdentity(p) == [hashed |-> FALSE, text |-> p]

\* bcrypt.hash(password, 10): a digest that is not the plaintext
bcryptHash(p) == [hashed |-> TRUE, text |-> p]

\* bcrypt.compare(password, user.password)
bcryptCompare(p, digest) == digest.hashed /\ digest.text = p

(***************************************************************************)
(* The store: users.  users[i] is the document with _id i.                 *)
(***************************************************************************)
UserIds == 1..Len(users)

\* UserDAO.readByEmail: User.findOne({ email }), 0 for null
readByEmail(email) ==
    IF \E i \in UserIds : users[i].email = email
    THEN CHOOSE i \in UserIds : users[i].email = email
    ELSE 0

\* A lookup by email and expiry alone, whatever the token.
ResetTokenMatchesAnyToken(u, email, token) ==
    /\ u.email = email
    /\ u.resetPasswordExpires # NullDate
    /\ u.resetPasswordExpires > now

\* A lookup that still accepts a token at the instant it expires.
ResetTokenMatchesAtExpiry(u, email, token) ==
    /\ u.email = email
    /\ u.resetPasswordToken = token
    /\ u.resetPasswordExpires # NullDate
    /\ u.resetPasswordExpires >= now

\* UserDAO.readByResetToken: User.findOne({ email, resetPasswordToken: token,
\* resetPasswordExpires: { $gt: Date.now() } }), 0 for null
ResetTokenMatches(u, email, token) ==
    /\ u.email = email
    /\ u.resetPasswordToken = token
    /\ u.resetPasswordExpires # NullDate
    /\ u.resetPasswordExpires > now

readByResetToken(email, token) ==
    IF \E i \in UserIds : ResetTokenMatches(users[i], email, token)
    THEN CHOOSE i \in UserIds : ResetTokenMatches(users[i], email, token)
    ELSE 0

Response(status, message) ==
    [status |-> status, message |-> message, cookie |-> "none", mail |-> "none",
     userId |-> 0, invoked |-> FALSE, body |-> {}]

\* No request is being answered.
NoRequest == [op |-> "none"]

NoResponse == Response(0, "none")

(***************************************************************************)
(* POST /users: UserController.create                                      *)
(***************************************************************************)
\* UserDAO.create: document.save() throws on the unique index of email
saveThrows(email) == \E i \in UserIds : users[i].email = email

\* A registration that looks for the email before it validates the password.
CreateResponseConflictFirst(email, password, confirmPassword) ==
    IF readByEmail(email) # 0
    THEN Response(409, "Email already in use")
    ELSE IF passwordValidation(password, confirmPassword) # "null"
    THEN Response(400, passwordValidation(password, confirmPassword))
    ELSE Response(201, "id")

\* A registration without the lookup of the email.
CreateResponseNoLookup(email, password, confirmPassword) ==
    IF passwordValidation(password, confirmPassword) # "null"
    THEN Response(400, passwordValidation(password, confirmPassword))
    ELSE IF saveThrows(email)
    THEN Response(500, "Internal Server Error")
    ELSE Response(201, "id")

CreateResponse(email, password, confirmPassword) ==
    IF passwordValidation(password, confirmPassword) # "null"
    THEN Response(400, passwordValidation(password, confirmPassword))
    ELSE IF readByEmail(email) # 0
    THEN Response(409, "Email already in use")
    ELSE IF saveThrows(email)
    THEN Response(500, "Internal Server Error")
    ELSE Response(201, "id")

NewUser(email, password) ==
    [email |-> email, password |-> bcryptHash(password),
     resetPasswordToken |-> NoToken, resetPasswordExpires |-> NullDate]

Register(email, password, confirmPassword) ==
    /\ req' = [op |-> "create", email |-> email, password |-> password,
               confirmPassword |-> confirmPassword]
    /\ res' = CreateResponse(email, password, confirmPassword)
    /\ users' = IF res'.status = 201
                THEN Append(users, NewUser(email, password))
                ELSE users
    /\ consumed' = IF res'.status = 201 THEN Append(consumed, NoToken) ELSE consumed
    /\ superseded' = IF res'.status = 201 THEN Append(superseded, NoToken) ELSE superseded
    /\ UNCHANGED <<tasks, nextTaskId, now, cookie, issued, limiterVars, inflight>>

(***************************************************************************)
(* POST /users/login: UserController.login, the handler behind the login   *)
(* rate limiter.                                                           *)
(***************************************************************************)
\* A login that tells an unknown email from a wrong password.
LoginResponseRevealing(email, password) ==
    IF readByEmail(email) = 0
    THEN Response(401, "Email not registered")
    ELSE IF ~bcryptCompare(password, users[readByEmail(email)].password)
    THEN Response(401, "Invalid email or password")
    ELSE [Response(200, "Login successful") EXCEPT !.cookie = "set"]

LoginResponse(email, password) ==
    IF readByEmail(email) = 0
    THEN Response(401, "Invalid email or password")
    ELSE IF ~bcryptCompare(password, users[readByEmail(email)].password)
    THEN Response(401, "Invalid email or password")
    ELSE [Response(200, "Login successful") EXCEPT !.cookie = "set"]

LoginHandler(email, password) ==
    /\ req' = [op |-> "login", email |-> email, password |-> password]
    /\ res' = LoginResponse(email, password)
    /\ cookie' = IF res'.cookie = "set"
                 THEN jwtSign(readByEmail(email), SessionTtl)
                 ELSE cookie
    /\ issued' = IF res'.cookie = "set" THEN cookie' ELSE issued
    /\ UNCHANGED <<users, tasks, nextTaskId, now, consumed, superseded, inflight>>

\* A login request the limiter lets through.
Login(email, password) ==
    /\ LoginHandler(email, password)
    /\ UNCHANGED limiterVars

(***************************************************************************)
(* POST /users/login as routed: loginLimiter, then UserController.login.   *)
(* The limiter keeps, per client address, the hits of the current window   *)
(* and the instant at which that window restarts.                          *)
(***************************************************************************)
NoHits == [count |-> 0, resetTime |-> 0]

\* the hits of one window the model follows: one beyond the limit
MaxLoginHits == LoginMax + 1

\* A store whose window never restarts.
incrementNeverResets(ip) ==
    IF hits[ip].count = 0
    THEN [count |-> 1, resetTime |-> clock + LoginWindow]
    ELSE [hits[ip] EXCEPT !.count = @ + 1]

\* The limiter's store on a request of the key: the first hit of a window
\* opens it for windowMs, a hit after the window restarted opens the next.
increment(ip) ==
    IF hits[ip].count = 0 \/ hits[ip].resetTime <= clock
    THEN [count |-> 1, resetTime |-> clock + LoginWindow]
    ELSE [hits[ip] EXCEPT !.count = @ + 1]

PostLogin(ip, email, password) ==
    /\ increment(ip).count <= MaxLoginHits
    /\ hits' = [hits EXCEPT ![ip] = increment(ip)]
    /\ clock' = clock
    /\ IF increment(ip).count > LoginMax
       THEN /\ req' = [op |-> "login", email |-> email, password |-> password]
            /\ res' = Response(429, "Too many requests, please try again after 10 minutes")
            /\ admitted' = admitted
            /\ UNCHANGED <<users, tasks, nextTaskId, now, cookie, issued, consumed, superseded,
                           inflight>>
       ELSE /\ LoginHandler(email, password)
            /\ admitted' = [admitted EXCEPT ![ip][clock] = @ + 1]

\* Five minutes pass.
LimiterTick ==
    /\ clock < MaxClock
    /\ clock' = clock + 1
    /\ req' = NoRequest
    /\ res' = NoResponse
    /\ UNCHANGED <<users, tasks, nextTaskId, now, cookie, issued, consumed, superseded,
                   hits, admitted, inflight>>

(***************************************************************************)
(* POST /users/logout: UserController.logout                               *)
(***************************************************************************)
\* A logout that refuses a request without a session cookie.
LogoutNeedsSession ==
    /\ req' = [op |-> "logout"]
    /\ res' = IF cookie = NoToken
              THEN Response(401, "No token provided")
              ELSE [Response(200, "Logged out successfully") EXCEPT !.cookie = "clear"]
    /\ cookie' = NoToken
    /\ UNCHANGED <<users, tasks, nextTaskId, now, consumed, superseded, issued,
                   limiterVars, inflight>>

Logout ==
    /\ req' = [op |-> "logout"]
    /\ res' = [Response(200, "Logged out successfully") EXCEPT !.cookie = "clear"]
    /\ cookie' = NoToken
    /\ UNCHANGED <<users, tasks, nextTaskId, now, consumed, superseded, issued,
                   limiterVars, inflight>>

(***************************************************************************)
(* POST /users/forgot-password: UserController.forgotPassword.             *)
(* transporter.sendMail is given a callback, so a failed dispatch reaches  *)
(* the callback, which logs it, and the handler goes on to its response.   *)
(***************************************************************************)
ForgotPasswordResponse(email, mailFails) ==
    IF readByEmail(email) = 0
    THEN Response(202, "If the email is registered, you will receive a password reset email")
    ELSE [Response(200, "Password reset email sent")
            EXCEPT !.mail = IF mailFails THEN "failed" ELSE "sent"]

\* A token saved with the lifetime of a session.
IssueResetTokenTwoHours(user, token) ==
    [user EXCEPT !.resetPasswordToken = token,
                 !.resetPasswordExpires = now + SessionTtl]

\* user.resetPasswordToken = token;
\* user.resetPasswordExpires = Date.now() + 3600000
IssueResetToken(user, token) ==
    [user EXCEPT !.resetPasswordToken = token,
                 !.resetPasswordExpires = now + ResetTtl]

ForgotPassword(email, mailFails) ==
    /\ req' = [op |-> "forgotPassword", email |-> email]
    /\ res' = ForgotPasswordResponse(email, mailFails)
    /\ IF readByEmail(email) # 0
       THEN /\ users' = [users EXCEPT ![readByEmail(email)] =
                            IssueResetToken(@, jwtSign(readByEmail(email), ResetTtl))]
            /\ consumed' = [consumed EXCEPT ![readByEmail(email)] = NoToken]
            /\ superseded' = [superseded EXCEPT ![readByEmail(email)] =
                  IF users[readByEmail(email)].resetPasswordToken
                        \in {NoToken, jwtSign(readByEmail(email), ResetTtl)}
                  THEN @
                  ELSE users[readByEmail(email)].resetPasswordToken]
       ELSE UNCHANGED <<users, consumed, superseded>>
    /\ UNCHANGED <<tasks, nextTaskId, now, cookie, issued, limiterVars, inflight>>

(***************************************************************************)
(* POST /users/reset-password: UserController.resetPassword                *)
(***************************************************************************)
\* A reset that does not validate the new password.
ResetPasswordResponseUnvalidated(email, token, password, confirmPassword) ==
    IF readByResetToken(email, token) = 0
    THEN Response(400, "Invalid or expired token")
    ELSE Response(200, "Password has been reset successfully")

ResetPasswordResponse(email, token, password, confirmPassword) ==
    IF readByResetToken(email, token) = 0
    THEN Response(400, "Invalid or expired token")
    ELSE IF passwordValidation(password, confirmPassword) # "null"
    THEN Response(400, passwordValidation(password, confirmPassword))
    ELSE Response(200, "Password has been reset successfully")

\* A reset that stores the password as it was sent.
ResetUserPlaintext(user, password) ==
    [user EXCEPT !.password = [hashed |-> FALSE, text |-> password],
                 !.resetPasswordToken = NoToken,
                 !.resetPasswordExpires = NullDate]

\* A reset that nulls the token and leaves its expiry on the user.
ResetUserKeepsExpiry(user, password) ==
    [user EXCEPT !.password = bcryptHash(password),
                 !.resetPasswordToken = NoToken]

\* A reset that leaves the token and its expiry on the user.
ResetUserKeepsToken(user, password) ==
    [user EXCEPT !.password = bcryptHash(password)]

\* user.password = req.body.password (hashed); user.resetPasswordToken = null;
\* user.resetPasswordExpires = null
ResetUser(user, password) ==
    [user EXCEPT !.password = bcryptHash(password),
                 !.resetPasswordToken = NoToken,
                 !.resetPasswordExpires = NullDate]

ResetPassword(email, token, password, confirmPassword) ==
    /\ req' = [op |-> "resetPassword", email |-> email, token |-> token,
               password |-> password, confirmPassword |-> confirmPassword]
    /\ res' = ResetPasswordResponse(email, token, password, confirmPassword)
    /\ IF res'.status = 200
       THEN /\ users' = [users EXCEPT ![readByResetToken(email, token)] =
                            ResetUser(users[readByResetToken(email, token)], password)]
            /\ consumed' = [consumed EXCEPT ![readByResetToken(email, token)] = token]
            /\ superseded' = superseded
       ELSE UNCHANGED <<users, consumed, superseded>>
    /\ UNCHANGED <<tasks, nextTaskId, now, cookie, issued, limiterVars, inflight>>

\* The reset tokens a client may present: none, those forgot-password can have
\* issued up to now, and the stored ones signed with another key.
ResetTokenInputs ==
    {NoToken}
    \cup {[userId |-> u, iat |-> t, exp |-> t + ResetTtl, sig |-> JWT_SECRET] :
             u \in UserIds, t \in 0..now}
    \cup {Forged(users[u].resetPasswordToken) : u \in UserIds}

\* The passwords sent with a reset token: the handler reads them only after the
\* lookup found the user, so a token the lookup refuses comes with one pair.
ResetPairInputs(email, token) ==
    IF readByResetToken(email, token) = 0
    THEN {<<PwOther, PwOther>>}
    ELSE ResetPasswordPairs

(***************************************************************************)
(* Requests that overlap.  A handler runs up to its next await of a store  *)
(* operation in one step; the steps of two requests interleave.  Each      *)
(* request keeps what the handler holds in its local variables: the        *)
(* request body, the document `user` it read, and in the end its response. *)
(***************************************************************************)
Requests == {1, 2}

Idle == [op |-> "none", pc |-> "idle"]

InFlight(op, pc, email, token, password, userId, user, response) ==
    [op |-> op, pc |-> pc, email |-> email, token |-> token,
     password |-> password, userId |-> userId, user |-> user, res |-> response]

\* create, up to `await UserDAO.readByEmail` and the checks on its result
CreateLookup(r, email, password, confirmPassword) ==
    /\ inflight[r] = Idle
    /\ IF passwordValidation(password, confirmPassword) # "null" \/ readByEmail(email) # 0
       THEN /\ inflight' = [inflight EXCEPT ![r] =
                  InFlight("create", "done", email, NoToken, password, 0, Idle,
                           CreateResponse(email, password, confirmPassword))]
            /\ req' = [op |-> "create", email |-> email, password |-> password,
                       confirmPassword |-> confirmPassword]
            /\ res' = CreateResponse(email, password, confirmPassword)
       ELSE /\ inflight' = [inflight EXCEPT ![r] =
                  InFlight("create", "write", email, NoToken, password, 0, Idle,
                           NoResponse)]
            /\ UNCHANGED <<req, res>>
    /\ UNCHANGED <<users, consumed, superseded, tasks, nextTaskId, now, cookie, issued,
                   limiterVars>>

\* create, from `await this.hashPassword` to the response:
\* UserDAO.create(req.body), whose save() throws on the unique index of email
CreateSave(r) ==
    /\ inflight[r].op = "create"
    /\ inflight[r].pc = "write"
    /\ res' = IF saveThrows(inflight[r].email)
              THEN Response(500, "Internal Server Error")
              ELSE Response(201, "id")
    /\ req' = [op |-> "create", email |-> inflight[r].email,
               password |-> inflight[r].password,
               confirmPassword |-> inflight[r].password]
    /\ inflight' = [inflight EXCEPT ![r].pc = "done", ![r].res = res']
    /\ users' = IF res'.status = 201
                THEN Append(users, NewUser(inflight[r].email, inflight[r].password))
                ELSE users
    /\ consumed' = IF res'.status = 201 THEN Append(consumed, NoToken) ELSE consumed
    /\ superseded' = IF res'.status = 201 THEN Append(superseded, NoToken) ELSE superseded
    /\ UNCHANGED <<tasks, nextTaskId, now, cookie, issued, limiterVars>>

\* forgotPassword, up to `await UserDAO.update`: the document read by email,
\* with the new token and its expiry set on it
ForgotLookup(r, email) ==
    /\ inflight[r] = Idle
    /\ IF readByEmail(email) = 0
       THEN /\ inflight' = [inflight EXCEPT ![r] =
                  InFlight("forgotPassword", "done", email, NoToken, <<>>, 0, Idle,
                           ForgotPasswordResponse(email, FALSE))]
            /\ req' = [op |-> "forgotPassword", email |-> email]
            /\ res' = ForgotPasswordResponse(email, FALSE)
       ELSE /\ inflight' = [inflight EXCEPT ![r] =
                  InFlight("forgotPassword", "write", email,
                           jwtSign(readByEmail(email), ResetTtl), <<>>,
                           readByEmail(email),
                           IssueResetToken(users[readByEmail(email)],
                                           jwtSign(readByEmail(email), ResetTtl)),
                           NoResponse)]
            /\ UNCHANGED <<req, res>>
    /\ UNCHANGED <<users, consumed, superseded, tasks, nextTaskId, now, cookie, issued,
                   limiterVars>>

\* forgotPassword, from UserDAO.update(user._id, user) to the response: the
\* update writes every field of the document the handler holds
ForgotUpdate(r) ==
    /\ inflight[r].op = "forgotPassword"
    /\ inflight[r].pc = "write"
    /\ users' = [users EXCEPT ![inflight[r].userId] = inflight[r].user]
    /\ consumed' = [consumed EXCEPT ![inflight[r].userId] = NoToken]
    /\ superseded' = [superseded EXCEPT ![inflight[r].userId] =
          IF users[inflight[r].userId].resetPasswordToken \in {NoToken, inflight[r].token}
          THEN @
          ELSE users[inflight[r].userId].resetPasswordToken]
    /\ req' = [op |-> "forgotPassword", email |-> inflight[r].email]
    /\ res' = [Response(200, "Password reset email sent") EXCEPT !.mail = "sent"]
    /\ inflight' = [inflight EXCEPT ![r].pc = "done", ![r].res = res']
    /\ UNCHANGED <<tasks, nextTaskId, now, cookie, issued, limiterVars>>

\* resetPassword, up to `await this.hashPassword`: the document read by email
\* and token, and the checks on the password
ResetLookup(r, email, token, password, confirmPassword) ==
    /\ inflight[r] = Idle
    /\ IF ResetPasswordResponse(email, token, password, confirmPassword).status # 200
       THEN /\ inflight' = [inflight EXCEPT ![r] =
                  InFlight("resetPassword", "done", email, token, password, 0, Idle,
                           ResetPasswordResponse(email, token, password, confirmPassword))]
            /\ req' = [op |-> "resetPassword", email |-> email, token |-> token,
                       password |-> password, confirmPassword |-> confirmPassword]
            /\ res' = ResetPasswordResponse(email, token, password, confirmPassword)
       ELSE /\ inflight' = [inflight EXCEPT ![r] =
                  InFlight("resetPassword", "write", email, token, password,
                           readByResetToken(email, token),
                           users[readByResetToken(email, token)], NoResponse)]
            /\ UNCHANGED <<req, res>>
    /\ UNCHANGED <<users, consumed, superseded, tasks, nextTaskId, now, cookie, issued,
                   limiterVars>>

\* resetPassword, from UserDAO.update(user._id, user) to the response: the
\* update writes every field of the document the handler holds
ResetUpdate(r) ==
    /\ inflight[r].op = "resetPassword"
    /\ inflight[r].pc = "write"
    /\ users' = [users EXCEPT ![inflight[r].userId] =
                    ResetUser(inflight[r].user, inflight[r].password)]
    /\ consumed' = [consumed EXCEPT ![inflight[r].userId] = inflight[r].token]
    /\ superseded' = superseded
    /\ req' = [op |-> "resetPassword", email |-> inflight[r].email,
               token |-> inflight[r].token, password |-> inflight[r].password,
               confirmPassword |-> inflight[r].password]
    /\ res' = Response(200, "Password has been reset successfully")
    /\ inflight' = [inflight EXCEPT ![r].pc = "done", ![r].res = res']
    /\ UNCHANGED <<tasks, nextTaskId, now, cookie, issued, limiterVars>>

(***************************************************************************)
(* GET /users: GlobalController.getAll, routed without authenticateToken;  *)
(* this.dao.getAll(req.query) with no filter is User.find({}), and the     *)
(* response is the documents as stored.                                    *)
(***************************************************************************)
GetAllUsers ==
    /\ req' = [op |-> "getAllUsers"]
    /\ res' = [Response(200, "items") EXCEPT
                 !.body = {[id |-> u, user |-> users[u]] : u \in UserIds}]
    /\ UNCHANGED <<users, tasks, nextTaskId, now, cookie, issued, consumed, superseded,
                   limiterVars, inflight>>

\* A middleware that accepts only tokens with the lifetime of a session.
authenticateTokenSessionOnly(token) ==
    IF token = NoToken
    THEN Response(401, "No token provided")
    ELSE IF ~jwtVerify(token, now) \/ token.exp - token.iat # SessionTtl
    THEN Response(401, "Invalid or expired token")
    ELSE [Response(0, "next") EXCEPT !.userId = token.userId]

(***************************************************************************)
(* authenticateToken(req, res, next): the 401 response, or next() with     *)
(* req.userId = decodedToken.userId.                                       *)
(***************************************************************************)
authenticateToken(token) ==
    IF token = NoToken
    THEN Response(401, "No token provided")
    ELSE IF ~jwtVerify(token, now)
    THEN Response(401, "Invalid or expired token")
    ELSE [Response(0, "next") EXCEPT !.userId = token.userId]

\* The response of a route behind authenticateToken: the controller's response
\* handler, which runs only after next().
Protected(token, handler) ==
    IF authenticateToken(token).message = "next"
    THEN [handler EXCEPT !.userId = authenticateToken(token).userId, !.invoked = TRUE]
    ELSE authenticateToken(token)

\* The tokens a client may put in its cookie: none, the one in its cookie jar,
\* one signed with another key, the session token it was last issued (a copy
\* kept across logout), and the reset tokens of the store.
CookieInputs ==
    {NoToken, cookie, Forged(cookie), issued}
    \cup {users[u].resetPasswordToken : u \in UserIds}

(***************************************************************************)
(* GET /users/check-token                                                  *)
(***************************************************************************)
CheckToken(token) ==
    /\ req' = [op |-> "checkToken", token |-> token]
    /\ res' = Protected(token, Response(200, "Token valido"))
    /\ UNCHANGED <<users, tasks, nextTaskId, now, cookie, issued, consumed, superseded, limiterVars, inflight>>

(***************************************************************************)
(* The store: tasks.  tasks[id] is the document with _id id; a deleted id  *)
(* is not used again.                                                      *)
(***************************************************************************)
TaskIds == 1..MaxTasks

\* TaskSchema.status: enum
TaskStatuses == {"Pending", "In-progress", "Completed"}

\* The request bodies of POST /tasks and PUT /tasks/:id: a missing field is
\* Absent, a missing userId 0.
TaskBody(title, date, time, status, userId) ==
    [title |-> title, date |-> date, time |-> time, status |-> status,
     userId |-> userId]

TaskBodies ==
    {TaskBody("T", "2024-01-01", "10:00", st, 0) :
        st \in {"Pending", "Archived", Absent}}
    \cup {TaskBody("T", "2024-01-01", "10:00", "Pending", u) : u \in UserIds}
    \cup {TaskBody(Absent, "2024-01-01", "10:00", "Pending", 0),
          TaskBody("T", Absent, "10:00", "Pending", 0),
          TaskBody("T", "2024-01-01", Absent, "Pending", 0),
          TaskBody(Absent, Absent, Absent, "Completed", 0)}

\* new Task(data).save() runs the schema's validators
TaskSchemaValid(data) ==
    /\ data.title # Absent
    /\ data.date # Absent
    /\ data.time # Absent
    /\ data.status \in TaskStatuses
    /\ data.userId # 0

\* GlobalDao.read: this.model.findById(id), which throws when there is none
readThrows(id) == id \notin DOMAIN tasks

\* The message of the Error GlobalDao.read throws for a missing document:
\* `Error getting document by ID: ${error.message}`
DocumentNotFound == "Error getting document by ID: Document not found"

\* The documents as the responses carry them.
TaskDocuments(ids) == {[id |-> id, task |-> tasks[id]] : id \in ids}

(***************************************************************************)
(* POST /tasks: TaskController.create                                      *)
(***************************************************************************)
\* A task whose owner is the userId of the body when the body carries one.
TaskDataOwnerFromBody(body, userId) ==
    IF body.userId # 0 THEN body ELSE [body EXCEPT !.userId = userId]

\* const taskData = { ...req.body, userId }
TaskData(body, userId) == [body EXCEPT !.userId = userId]

CreateTaskResponse(body, userId) ==
    IF body.title = Absent \/ body.date = Absent \/ body.time = Absent
       \/ body.status = Absent
    THEN Response(400, "Unfilled fields")
    ELSE IF ~TaskSchemaValid(TaskData(body, userId))
    THEN Response(500, "We couldn't save your task, please try again.")
    ELSE Response(201, "id")

CreateTask(token, body) ==
    /\ nextTaskId <= MaxTasks
    /\ req' = [op |-> "createTask", token |-> token, body |-> body]
    /\ res' = Protected(token, CreateTaskResponse(body, token.userId))
    /\ IF res'.status = 201
       THEN /\ tasks' = tasks @@ (nextTaskId :> TaskData(body, token.userId))
            /\ nextTaskId' = nextTaskId + 1
       ELSE UNCHANGED <<tasks, nextTaskId>>
    /\ UNCHANGED <<users, now, cookie, issued, consumed, superseded, limiterVars, inflight>>

(***************************************************************************)
(* GET /tasks: TaskController.getAll, TaskDAO.getAll({ userId })           *)
(***************************************************************************)
\* A listing that does not filter by owner.
getAllEveryTask(userId) == DOMAIN tasks

\* Task.find({ userId }).sort({ createdAt: -1 })
getAll(userId) == {id \in DOMAIN tasks : tasks[id].userId = userId}

GetAllTasks(token) ==
    /\ req' = [op |-> "getAllTasks", token |-> token]
    /\ res' = Protected(token,
                 [Response(200, "tasks") EXCEPT
                     !.body = TaskDocuments(getAll(token.userId))])
    /\ UNCHANGED <<users, tasks, nextTaskId, now, cookie, issued, consumed, superseded, limiterVars, inflight>>

(***************************************************************************)
(* GET /tasks/:id: GlobalController.read                                   *)
(***************************************************************************)
ReadResponse(id) ==
    IF readThrows(id)
    THEN Response(404, DocumentNotFound)
    ELSE [Response(200, "item") EXCEPT !.body = TaskDocuments({id})]

ReadTask(token, id) ==
    /\ req' = [op |-> "readTask", token |-> token, id |-> id]
    /\ res' = Protected(token, ReadResponse(id))
    /\ UNCHANGED <<users, tasks, nextTaskId, now, cookie, issued, consumed, superseded, limiterVars, inflight>>

(***************************************************************************)
(* PUT /tasks/:id: TaskController.update2, TaskDAO.update                  *)
(***************************************************************************)
\* Task.findByIdAndUpdate(taskId, updates, { new: true }): every field of the
\* body that the schema has is set, without validation
findByIdAndUpdate(task, updates) ==
    [title  |-> IF updates.title # Absent THEN updates.title ELSE task.title,
     date   |-> IF updates.date # Absent THEN updates.date ELSE task.date,
     time   |-> IF updates.time # Absent THEN updates.time ELSE task.time,
     status |-> IF updates.status # Absent THEN updates.status ELSE task.status,
     userId |-> IF updates.userId # 0 THEN updates.userId ELSE task.userId]

Update2Response(id, updates) ==
    IF readThrows(id)
    THEN Response(500, "We couldn't update your task, please try again")
    ELSE [Response(200, "Task updated successfully") EXCEPT
             !.body = {[id |-> id, task |-> findByIdAndUpdate(tasks[id], updates)]}]

UpdateTask(token, id, body) ==
    /\ req' = [op |-> "updateTask", token |-> token, id |-> id, body |-> body]
    /\ res' = Protected(token, Update2Response(id, body))
    /\ tasks' = IF res'.status = 200
                THEN [tasks EXCEPT ![id] = findByIdAndUpdate(tasks[id], body)]
                ELSE tasks
    /\ UNCHANGED <<users, nextTaskId, now, cookie, issued, consumed, superseded, limiterVars, inflight>>

(***************************************************************************)
(* DELETE /tasks/:id: TaskController.delete2                               *)
(***************************************************************************)
Delete2Response(id) ==
    IF readThrows(id)
    THEN Response(500, "We couldn't delete your task, please try again")
    ELSE Response(200, "Task deleted successfully")

DeleteTask(token, id) ==
    /\ req' = [op |-> "deleteTask", token |-> token, id |-> id]
    /\ res' = Protected(token, Delete2Response(id))
    /\ tasks' = IF res'.status = 200
                THEN [i \in DOMAIN tasks \ {id} |-> tasks[i]]
                ELSE tasks
    /\ UNCHANGED <<users, nextTaskId, now, cookie, issued, consumed, superseded, limiterVars, inflight>>

(***************************************************************************)
(* Time passes.                                                            *)
(***************************************************************************)
Tick ==
    /\ now < MaxTime
    /\ now' = now + 1
    /\ req' = NoRequest
    /\ res' = NoResponse
    /\ UNCHANGED <<users, tasks, nextTaskId, cookie, issued, consumed, superseded, limiterVars, inflight>>

Init ==
    /\ users = <<>>
    /\ tasks = <<>>
    /\ nextTaskId = 1
    /\ now = 0
    /\ cookie = NoToken
    /\ consumed = <<>>
    /\ superseded = <<>>
    /\ issued = NoToken
    /\ inflight = [r \in Requests |-> Idle]
    /\ clock = 0
    /\ hits = [ip \in Clients |-> NoHits]
    /\ admitted = [ip \in Clients |-> [t \in 0..MaxClock |-> 0]]
    /\ req = NoRequest
    /\ res = NoResponse

(***************************************************************************)
(* Registration, login, logout and session verification.                   *)
(***************************************************************************)
Next ==
    \/ \E e \in Emails, pc \in PasswordPairs : Register(e, pc[1], pc[2])
    \/ \E e \in Emails, p \in Passwords : Login(e, p)
    \/ Logout
    \/ \E t \in CookieInputs : CheckToken(t)
    \/ Tick

Spec == Init /\ [][Next]_vars

(***************************************************************************)
(* Password reset: registration with a valid password, forgot-password and *)
(* reset-password.                                                         *)
(***************************************************************************)
ResetNext ==
    \/ \E e \in Emails : Register(e, PwGood, PwGood)
    \/ \E e \in Emails, mailFails \in BOOLEAN : ForgotPassword(e, mailFails)
    \/ \E e \in Emails, t \in ResetTokenInputs :
          \E pc \in ResetPairInputs(e, t) : ResetPassword(e, t, pc[1], pc[2])
    \/ GetAllUsers
    \/ Tick

ResetSpec == Init /\ [][ResetNext]_vars

(***************************************************************************)
(* Login behind its rate limiter, within one hour, before any user has     *)
(* registered: the limiter counts a request whatever the handler answers.  *)
(***************************************************************************)
LimiterNext ==
    \/ \E ip \in Clients, e \in Emails : PostLogin(ip, e, PwGood)
    \/ LimiterTick

LimiterSpec == Init /\ [][LimiterNext]_vars

(***************************************************************************)
(* Password reset followed by login: the mail is delivered and the client  *)
(* presents the token it was sent.                                         *)
(***************************************************************************)
\* The token of the reset link last mailed to the address, none if none was.
MailedToken(email) ==
    IF readByEmail(email) = 0
    THEN NoToken
    ELSE users[readByEmail(email)].resetPasswordToken

ReloginNext ==
    \/ \E e \in Emails : Register(e, PwGood, PwGood)
    \/ \E e \in Emails : ForgotPassword(e, FALSE)
    \/ \E e \in Emails :
          \E pc \in ResetPairInputs(e, MailedToken(e)) :
             ResetPassword(e, MailedToken(e), pc[1], pc[2])
    \/ \E e \in Emails, p \in {PwGood, PwOther} : Login(e, p)
    \/ Tick

ReloginSpec == Init /\ [][ReloginNext]_vars

(***************************************************************************)
(* Reset tokens in the session cookie: a client that never logged in puts  *)
(* in its cookie a reset token of the store, the one the last reset used   *)
(* or the one the last forgot-password replaced.                           *)
(***************************************************************************)
ResetTokensSeen ==
    {users[u].resetPasswordToken : u \in UserIds}
    \cup {consumed[u] : u \in UserIds}
    \cup {superseded[u] : u \in UserIds}

ResetCookieNext ==
    \/ \E e \in Emails : Register(e, PwGood, PwGood)
    \/ \E e \in Emails : ForgotPassword(e, FALSE)
    \/ \E e \in Emails : ResetPassword(e, MailedToken(e), PwOther, PwOther)
    \/ \E t \in ResetTokensSeen : CheckToken(t)
    \/ \E t \in ResetTokensSeen : GetAllTasks(t)
    \/ Tick

ResetCookieSpec == Init /\ [][ResetCookieNext]_vars

(***************************************************************************)
(* Overlapping requests on the user store: registration and                *)
(* forgot-password also as requests that overlap no other.                 *)
(***************************************************************************)
OverlapNext ==
    \/ \E e \in Emails : Register(e, PwGood, PwGood)
    \/ \E e \in Emails : ForgotPassword(e, FALSE)
    \/ \E r \in Requests, e \in Emails : CreateLookup(r, e, PwGood, PwGood)
    \/ \E r \in Requests : CreateSave(r)
    \/ \E r \in Requests, e \in Emails : ForgotLookup(r, e)
    \/ \E r \in Requests : ForgotUpdate(r)
    \/ \E r \in Requests, e \in Emails, p \in {PwGood, PwOther} :
          ResetLookup(r, e, MailedToken(e), p, p)
    \/ \E r \in Requests : ResetUpdate(r)

OverlapSpec == Init /\ [][OverlapNext]_vars

(***************************************************************************)
(* Tasks: registration and login with a valid password, and the routes of  *)
(* the task router.                                                        *)
(***************************************************************************)
\* A request whose token is not the one of the cookie jar is sent with one
\* body and one id: authenticateToken reads neither.
BodyInputs(token) ==
    IF token = cookie
    THEN TaskBodies
    ELSE {TaskBody("T", "2024-01-01", "10:00", "Pending", 0)}

IdInputs(token) == IF token = cookie THEN TaskIds ELSE {1}

TaskNext ==
    \/ \E e \in Emails : Register(e, PwGood, PwGood)
    \/ \E e \in Emails : Login(e, PwGood)
    \/ \E t \in CookieInputs : \E b \in BodyInputs(t) : CreateTask(t, b)
    \/ \E t \in CookieInputs : GetAllTasks(t)
    \/ \E t \in CookieInputs : \E id \in IdInputs(t) : ReadTask(t, id)
    \/ \E t \in CookieInputs : \E id \in IdInputs(t), b \in BodyInputs(t) :
          UpdateTask(t, id, b)
    \/ \E t \in CookieInputs : \E id \in IdInputs(t) : DeleteTask(t, id)
    \/ Tick

TaskSpec == Init /\ [][TaskNext]_vars

(***************************************************************************)
(* The properties.                                                         *)
(***************************************************************************)
\* The routes of the task router, all behind authenticateToken.
TaskOps == {"createTask", "getAllTasks", "readTask", "updateTask", "deleteTask"}

\* C1: an update or a delete of a stored task by a valid session whose subject
\* is not the task's owner is answered 404 and leaves the store of tasks as it
\* was.
C1_OnlyOwnerMutates ==
    [][(/\ req'.op \in {"updateTask", "deleteTask"}
        /\ res'.invoked
        /\ req'.id \in DOMAIN tasks
        /\ tasks[req'.id].userId # res'.userId)
       => (res'.status = 404 /\ tasks' = tasks)]_vars

\* C2: no step changes the owner of a stored task, whatever the body of an
\* update request carries.
C2_OwnerNeverChanges ==
    [][\A id \in DOMAIN tasks \cap DOMAIN tasks' :
          tasks'[id].userId = tasks[id].userId]_vars

\* C3: a read of a stored task by a valid session whose subject is not the
\* task's owner is answered 404 and carries no task.
C3_OnlyOwnerReads ==
    (/\ req.op = "readTask"
     /\ res.invoked
     /\ req.id \in DOMAIN tasks
     /\ tasks[req.id].userId # res.userId)
    => (res.status = 404 /\ res.body = {})

\* C4: on a route behind authenticateToken, a request without a token, with a
\* token signed with another key or with a token whose exp has passed is
\* answered 401, the controller does not run and the store is unchanged;
\* every other request runs the controller with req.userId the token's userId.
C4_AuthenticateToken ==
    [][req'.op \in TaskOps =>
         IF \/ req'.token = NoToken
            \/ req'.token.sig # JWT_SECRET
            \/ now >= req'.token.exp
         THEN /\ res'.status = 401
              /\ ~res'.invoked
              /\ tasks' = tasks
              /\ users' = users
         ELSE /\ res'.invoked
              /\ res'.userId = req'.token.userId
              /\ res'.status # 401]_vars

\* C4 witness: an expired session token was presented and refused.
C4_Witness ==
    /\ req.op = "updateTask"
    /\ req.token.sig = JWT_SECRET
    /\ now >= req.token.exp
    /\ res.status = 401

\* C5: a reset-password request that presents the token the user's last
\* successful reset consumed, with no forgot-password for that user since, is
\* answered 400 "Invalid or expired token" and changes no user.
C5_ResetTokenSingleUse ==
    [][(/\ req'.op = "resetPassword"
        /\ req'.token # NoToken
        /\ \E u \in UserIds :
              users[u].email = req'.email /\ consumed[u] = req'.token)
       => (/\ res'.status = 400
           /\ res'.message = "Invalid or expired token"
           /\ users' = users)]_vars

\* C5 witness: a consumed token was presented again, before its expiry, and
\* refused.
C5_Witness ==
    /\ req.op = "resetPassword"
    /\ req.token # NoToken
    /\ now < req.token.exp
    /\ \E u \in UserIds : users[u].email = req.email /\ consumed[u] = req.token
    /\ res.status = 400

\* Some user has this email, this reset token and an expiry later than now.
ResetWindowOpen(email, token) ==
    \E u \in UserIds :
        /\ users[u].email = email
        /\ users[u].resetPasswordToken = token
        /\ users[u].resetPasswordExpires # NullDate
        /\ users[u].resetPasswordExpires > now

\* C6: a reset-password request succeeds only if some user has the email, the
\* token and an expiry strictly later than now; every other request is
\* answered 400 and changes no user.
C6_ResetNeedsOpenWindow ==
    [][req'.op = "resetPassword" =>
         /\ res'.status = 200 => ResetWindowOpen(req'.email, req'.token)
         /\ ~ResetWindowOpen(req'.email, req'.token)
               => (res'.status = 400 /\ users' = users)]_vars

\* C6 witness: the stored token of the user was presented at the instant of
\* its expiry and refused.
C6_Witness ==
    /\ req.op = "resetPassword"
    /\ \E u \in UserIds :
          /\ users[u].email = req.email
          /\ users[u].resetPasswordToken = req.token
          /\ users[u].resetPasswordExpires = now
    /\ res.status = 400

\* An email no registration of the model uses.
UnregisteredEmail == "nobody@example.com"

\* C7: the response of forgot-password for a registered email whose mail was
\* dispatched has the status and the message of the response for an email
\* that is not registered.
C7_ForgotPasswordSameResponse ==
    (req.op = "forgotPassword" /\ res.mail = "sent")
    => /\ res.status = ForgotPasswordResponse(UnregisteredEmail, FALSE).status
       /\ res.message = ForgotPasswordResponse(UnregisteredEmail, FALSE).message

\* C8: a login with an unregistered email and a login with a registered email
\* and a wrong password are both answered 401 with one message, and neither
\* sets a cookie.
C8_LoginFailuresAlike ==
    [][(/\ req'.op = "login"
        /\ \A u \in UserIds :
              users[u].email = req'.email
                 => users[u].password # [hashed |-> TRUE, text |-> req'.password])
       => (/\ res'.status = 401
           /\ res'.message = "Invalid email or password"
           /\ res'.cookie = "none"
           /\ cookie' = cookie)]_vars

\* C8 witness: each of the two failures has happened: this one is the unknown
\* email, with a user of another email registered.
C8_Witness ==
    /\ req.op = "login"
    /\ Len(users) > 0
    /\ \A u \in UserIds : users[u].email # req.email
    /\ res.status = 401

UniqueEmails(us) ==
    \A i, j \in 1..Len(us) : us[i].email = us[j].email => i = j

\* C9: after every step at most one user has a given email, and a registration
\* with a stored email and a valid, confirmed password is answered 409 and
\* writes nothing.
C9_OneUserPerEmail ==
    [][/\ UniqueEmails(users')
       /\ (/\ req'.op = "create"
           /\ \E u \in UserIds : users[u].email = req'.email
           /\ req'.password = req'.confirmPassword
           /\ passwordRegex(req'.password))
          => (res'.status = 409 /\ users' = users)]_vars

\* C9 witness: a second registration with the email of a user was refused.
C9_Witness ==
    /\ req.op = "create"
    /\ req.password = req.confirmPassword
    /\ \E u \in UserIds : users[u].email = req.email
    /\ res.status = 409

\* C10: a registration whose password differs from its confirmation or fails
\* the complexity predicate is answered 400 and writes nothing, whether or not
\* its email is registered.
C10_PasswordGatesFirst ==
    [][(/\ req'.op = "create"
        /\ \/ req'.password # req'.confirmPassword
           \/ ~passwordRegex(req'.password))
       => (res'.status = 400 /\ users' = users)]_vars

\* C10 witness: a registration with a registered email and a password that
\* fails the complexity predicate was answered 400.
C10_Witness ==
    /\ req.op = "create"
    /\ req.password = req.confirmPassword
    /\ ~passwordRegex(req.password)
    /\ \E u \in UserIds : users[u].email = req.email
    /\ res.status = 400

\* C11: a successful login of a user at time T puts in the cookie a token
\* issued at T for that user; a failed login sets none; and authenticateToken
\* resolves the token of the cookie to its user at every time before T + 2h
\* and answers 401 at every time from T + 2h on.
C11_SessionLastsTwoHours ==
    [][/\ (req'.op = "login" /\ res'.status = 200)
            => /\ res'.cookie = "set"
               /\ cookie'.iat = now
               /\ cookie'.userId \in UserIds
               /\ users[cookie'.userId].email = req'.email
       /\ (req'.op = "login" /\ res'.status # 200)
            => (res'.cookie = "none" /\ cookie' = cookie)
       /\ (req'.op = "checkToken" /\ req'.token = cookie /\ cookie # NoToken)
            => IF now < cookie.iat + SessionTtl
               THEN res'.status = 200 /\ res'.invoked /\ res'.userId = cookie.userId
               ELSE res'.status = 401 /\ ~res'.invoked]_vars

\* C11 witness: the token of a login was presented two hours after the login
\* and refused.
C11_Witness ==
    /\ req.op = "checkToken"
    /\ cookie # NoToken
    /\ req.token = cookie
    /\ now = cookie.iat + SessionTtl
    /\ res.status = 401

\* C12: a successful reset-password with the new password p stores the hash of
\* p on the user and nulls the reset token and its expiry, so that the login
\* that follows succeeds with p and is refused with 401 with any other
\* password, the previous one included; and a login after a reset succeeds
\* exactly with the password of that reset.
C12_ResetThenLogin ==
    [][/\ \A e \in Emails, p \in Passwords :
            (/\ req'.op = "resetPassword" /\ res'.status = 200
             /\ req'.email = e /\ req'.password = p)
            => /\ readByEmail(e) # 0
               /\ users' = [users EXCEPT ![readByEmail(e)] =
                     [@ EXCEPT !.password = bcryptHash(p),
                               !.resetPasswordToken = NoToken,
                               !.resetPasswordExpires = NullDate]]
               /\ LoginResponse(e, p)'.status = 200
               /\ \A q \in Passwords \ {p} :
                     /\ LoginResponse(e, q)'.status = 401
                     /\ LoginResponse(e, q)'.cookie = "none"
       /\ (/\ req'.op = "login"
           /\ readByEmail(req'.email) # 0
           /\ consumed[readByEmail(req'.email)] # NoToken)
            => IF users[readByEmail(req'.email)].password = bcryptHash(req'.password)
               THEN res'.status = 200
               ELSE res'.status = 401 /\ cookie' = cookie]_vars

\* C12 witness: after a reset to another password, a login with the password
\* of the registration was refused.
C12_Witness ==
    /\ req.op = "login"
    /\ readByEmail(req.email) # 0
    /\ consumed[readByEmail(req.email)] # NoToken
    /\ req.password = PwGood
    /\ users[readByEmail(req.email)].password = bcryptHash(PwOther)
    /\ res.status = 401

\* C13: once forgot-password has replaced the stored reset token T1 of a user
\* by a different token T2, a reset-password with T1 is answered 400 and
\* leaves the store as it was, while a reset-password with T2, before its
\* expiry and with a valid password, succeeds.
C13_NewTokenSupersedes ==
    [][req'.op = "resetPassword"
         => \A u \in UserIds :
               (users[u].email = req'.email /\ superseded[u] # NoToken)
               => /\ req'.token = superseded[u]
                     => /\ res'.status = 400
                        /\ res'.message = "Invalid or expired token"
                        /\ users' = users
                  /\ (/\ req'.token = users[u].resetPasswordToken
                      /\ req'.token # NoToken
                      /\ now < users[u].resetPasswordExpires
                      /\ passwordValidation(req'.password, req'.confirmPassword) = "null")
                     => /\ res'.status = 200
                        /\ users'[u].password = bcryptHash(req'.password)]_vars

\* C13 witness: the superseded token was presented while the window of the
\* token that replaced it was open, and it was refused.
C13_Witness ==
    /\ req.op = "resetPassword"
    /\ res.status = 400
    /\ \E u \in UserIds :
          /\ users[u].email = req.email
          /\ superseded[u] # NoToken
          /\ req.token = superseded[u]
          /\ users[u].resetPasswordToken # NoToken
          /\ users[u].resetPasswordExpires > now

C15_MailFailureIs500 ==
    (req.op = "forgotPassword" /\ res.mail = "failed")
        => (res.status = 500 /\ res.message = "Internal Server Error")

\* C17: a GET /tasks that passed authenticateToken for the subject s is
\* answered 200 with exactly the stored tasks whose owner is s, whatever
\* creations, updates and deletions came before.
C17_ListIsOwnTasks ==
    (req.op = "getAllTasks" /\ res.invoked)
        => /\ res.status = 200
           /\ res.userId = req.token.userId
           /\ \A id \in DOMAIN tasks :
                 ([id |-> id, task |-> tasks[id]] \in res.body)
                    <=> (tasks[id].userId = res.userId)
           /\ \A d \in res.body : d.id \in DOMAIN tasks /\ d.task = tasks[d.id]

\* C17 witness: the list was served to a subject while the store held a task
\* of another owner.
C17_Witness ==
    /\ req.op = "getAllTasks"
    /\ res.invoked
    /\ \E id \in DOMAIN tasks : tasks[id].userId # res.userId

\* C18: in every state the password field of every stored user is an output
\* of the hash, and a user document has no field besides the four of the
\* schema: neither the plaintext password nor confirmPassword is persisted
\* by registration, by forgot-password or by reset-password.
C18_OnlyHashesStored ==
    \A u \in UserIds :
       /\ users[u].password.hashed
       /\ \E p \in Passwords : users[u].password = bcryptHash(p)
       /\ DOMAIN users[u] =
             {"email", "password", "resetPasswordToken", "resetPasswordExpires"}

\* C18 witness: the store holds a user as registration wrote it, with a reset
\* token issued since, and a user whose password reset-password replaced.
C18_Witness ==
    \E u, v \in UserIds :
       /\ users[u].password = bcryptHash(PwGood)
       /\ users[u].resetPasswordToken # NoToken
       /\ consumed[v] # NoToken
       /\ users[v].password = bcryptHash(PwOther)

C20_StatusInEnum ==
    \A id \in DOMAIN tasks : tasks[id].status \in TaskStatuses

\* The login requests of the address that went through to the handler at the
\* instants from..to of the limiter's clock.
RECURSIVE AdmittedBetween(_, _, _)
AdmittedBetween(ip, from, to) ==
    IF from > to \/ from > MaxClock
    THEN 0
    ELSE admitted[ip][from] + AdmittedBetween(ip, from + 1, to)

C21_MissingTaskIs404 ==
    [][(/\ req'.op \in {"updateTask", "deleteTask"}
        /\ res'.invoked
        /\ req'.id \notin DOMAIN tasks)
       => (res'.status = 404 /\ tasks' = tasks)]_vars

\* C22: logout is answered 200 from every state, with a session cookie, with
\* an expired one or with none, and changes only the client's cookie; the
\* session token issued before the logout, presented afterwards, is accepted
\* by authenticateToken as its user until its expiry and refused from then on.
C22_LogoutRevokesNothing ==
    [][/\ req'.op = "logout"
            => /\ res'.status = 200
               /\ res'.message = "Logged out successfully"
               /\ UNCHANGED <<users, tasks, now, issued>>
       /\ (/\ req'.op = "checkToken"
           /\ cookie = NoToken
           /\ issued # NoToken
           /\ req'.token = issued)
            => IF now < issued.exp
               THEN /\ res'.status = 200
                    /\ res'.invoked
                    /\ res'.userId = issued.userId
               ELSE res'.status = 401]_vars

\* C22 witness: after a logout cleared the cookie, the token of the session
\* was presented and accepted.
C22_Witness ==
    /\ req.op = "checkToken"
    /\ cookie = NoToken
    /\ issued # NoToken
    /\ req.token = issued
    /\ res.status = 200
    /\ res.invoked

\* C23: every error response has one of the statuses 400, 401, 404, 409, 429
\* and 500, and its message is a fixed text of the controller: none carries
\* the message of the error the store layer threw.
C23_GenericErrorMessages ==
    res.status >= 400
        => /\ res.status \in {400, 401, 404, 409, 429, 500}
           /\ res.message # DocumentNotFound

\* C24: a reset-password that changes the password and answers 200 presents a
\* token that no other reset-password has used since it was issued, also when
\* the requests overlap.
C24_OneResetPerToken ==
    [][\A r \in Requests :
          (/\ inflight[r].op = "resetPassword"
           /\ inflight[r].pc = "write"
           /\ inflight'[r].pc = "done"
           /\ inflight'[r].res.status = 200)
          => consumed[inflight[r].userId] # inflight[r].token]_vars

\* C25: once a reset-password that answered 200 and a forgot-password for the
\* same user have both completed, in whatever order their store operations
\* ran, the stored password of the user is the one the reset set.
C25_ResetNotLostToForgot ==
    \A r1, r2 \in Requests :
       (/\ inflight[r1].op = "resetPassword"
        /\ inflight[r1].pc = "done"
        /\ inflight[r1].res.status = 200
        /\ inflight[r2].op = "forgotPassword"
        /\ inflight[r2].pc = "done"
        /\ inflight[r2].email = inflight[r1].email)
       => users[readByEmail(inflight[r1].email)].password
             = bcryptHash(inflight[r1].password)

\* C26: of two registrations with the same email and valid passwords, of which
\* one is answered 201, the other is answered 409, and one user is stored for
\* that email, also when the requests overlap.
C26_OneCreatedOneConflict ==
    \A r1, r2 \in Requests :
       (/\ r1 # r2
        /\ inflight[r1].op = "create"
        /\ inflight[r1].pc = "done"
        /\ inflight[r2].op = "create"
        /\ inflight[r2].pc = "done"
        /\ inflight[r1].email = inflight[r2].email
        /\ inflight[r1].res.status = 201)
       => /\ inflight[r2].res.status = 409
          /\ Cardinality({u \in UserIds : users[u].email = inflight[r1].email}) = 1

\* C27: no HTTP response carries the reset token stored for a user.
C27_NoResponseCarriesResetToken ==
    req.op = "getAllUsers"
        => \A d \in res.body, u \in UserIds :
              users[u].resetPasswordToken # NoToken
                 => d.user.resetPasswordToken # users[u].resetPasswordToken

\* C28: a create request that passed authenticateToken and misses title, date,
\* time or status is answered 400 and stores no task; any other stores at most
\* one new task, none unless it is answered 201, and the owner of the new task
\* is the subject of the session, whatever userId the body carries.
C28_CreatorOwnsNewTask ==
    [][(req'.op = "createTask" /\ res'.invoked)
         => IF \/ req'.body.title = Absent \/ req'.body.date = Absent
               \/ req'.body.time = Absent \/ req'.body.status = Absent
            THEN res'.status = 400 /\ tasks' = tasks
            ELSE IF res'.status = 201
            THEN /\ \E id \in DOMAIN tasks' \ DOMAIN tasks :
                       /\ DOMAIN tasks' = DOMAIN tasks \cup {id}
                       /\ tasks'[id].userId = res'.userId
                       /\ tasks'[id].userId = req'.token.userId
                 /\ \A id \in DOMAIN tasks : tasks'[id] = tasks[id]
            ELSE tasks' = tasks]_vars

\* C28 witness: a task was created by a request whose body carried the userId
\* of another user, and its owner is the subject of the session.
C28_Witness ==
    /\ req.op = "createTask"
    /\ res.status = 201
    /\ req.body.userId # 0
    /\ req.body.userId # res.userId
    /\ \E id \in DOMAIN tasks : tasks[id].userId = res.userId

C30_FailedGateKeepsToken ==
    [][(/\ req'.op = "resetPassword"
        /\ readByResetToken(req'.email, req'.token) # 0
        /\ passwordValidation(req'.password, req'.confirmPassword) # "null")
         => /\ res'.status = 400
            /\ res'.message = passwordValidation(req'.password, req'.confirmPassword)
            /\ users' = users
            /\ now' = now
            /\ ResetPasswordResponse(req'.email, req'.token, PwGood, PwGood).status = 200]_vars

\* C30 witness: a reset with the stored token, inside its window, was refused
\* for its password, and the token is still the stored one, inside its window.
C30_Witness ==
    /\ req.op = "resetPassword"
    /\ res.status = 400
    /\ res.message = passwordValidation(req.password, req.confirmPassword)
    /\ passwordValidation(req.password, req.confirmPassword) # "null"
    /\ readByResetToken(req.email, req.token) # 0
    /\ users[readByResetToken(req.email, req.token)].resetPasswordToken = req.token
    /\ now < users[readByResetToken(req.email, req.token)].resetPasswordExpires

====
